---- MODULE Spec2Model ----
\* A model of package rdb/netbug (register.go): Register installs, on a
\* caller-supplied http.ServeMux, one handler under a route prefix; the
\* handler strips prefix+"debug/pprof/" from the request path, dispatches on
\* the remaining name and renders an index page from a text/template.
\*
\* Go strings are modelled as sequences of one-character strings, so that
\* strings.TrimPrefix, the mux's pattern matching and the template output are
\* computed character by character.
EXTENDS Integers, Sequences, FiniteSets, Bags, TLC


\* ---------------------------------------------------------------- bounds

\* Register calls explored per behaviour.
MaxRegistrations == 2
\* How far a sampled profile's count rises above its count at the start.
MaxCount == 1
\* Requests that may be in flight at once (specification SpecConc).
MaxInflight == 2

\* ---------------------------------------------------------------- strings

\* The characters used, in ascending byte order (Go compares strings bytewise).
ByteOrder ==
  << "\n", " ", "\"", "#", "&", "/", "0", "1", "2", "3", "4", "5", "6", "7",
     "8", "9", ":", ";", "<", "=", ">", "?", "C", "P", "U",
     "a", "b", "c", "d", "e", "f", "g", "h", "i", "k", "l", "m", "n", "o",
     "p", "q", "r", "s", "t", "u", "v", "x", "y" >>

Ord(c) == CHOOSE i \in 1..Len(ByteOrder) : ByteOrder[i] = c

\* Go's string comparison s < t.
Less(s, t) ==
  \E i \in 1..(Len(t)) :
    /\ \A j \in 1..(i - 1) : j <= Len(s) /\ s[j] = t[j]
    /\ \/ i = Len(s) + 1
       \/ i <= Len(s) /\ Ord(s[i]) < Ord(t[i])

\* strings.HasPrefix
HasPrefix(s, prefix) ==
  /\ Len(prefix) <= Len(s)
  /\ SubSeq(s, 1, Len(prefix)) = prefix

\* strings.TrimPrefix: s without the leading prefix, or s itself.
TrimPrefix(s, prefix) ==
  IF HasPrefix(s, prefix) THEN SubSeq(s, Len(prefix) + 1, Len(s)) ELSE s

Digits == << "0", "1", "2", "3", "4", "5", "6", "7", "8", "9" >>

\* The decimal text of a non-negative integer ({{.Count}} prints an int).
RECURSIVE Itoa(_)
Itoa(n) ==
  IF n < 10 THEN << Digits[n + 1] >>
  ELSE Itoa(n \div 10) \o << Digits[(n % 10) + 1] >>

\* ---------------------------------------------------------------- names

Cmdline == << "c", "m", "d", "l", "i", "n", "e" >>
Profile == << "p", "r", "o", "f", "i", "l", "e" >>
Symbol == << "s", "y", "m", "b", "o", "l" >>

\* The profiles runtime/pprof always has, and one the program may add with
\* pprof.NewProfile; the latter's name holds HTML-special characters.
BlockName == << "b", "l", "o", "c", "k" >>
GoroutineName == << "g", "o", "r", "o", "u", "t", "i", "n", "e" >>
HeapName == << "h", "e", "a", "p" >>
ThreadcreateName ==
  << "t", "h", "r", "e", "a", "d", "c", "r", "e", "a", "t", "e" >>
CustomName == << "<", "x", ">" >>
BuiltinNames == { BlockName, GoroutineName, HeapName, ThreadcreateName }
CustomNames == { CustomName }
ProfileNames == BuiltinNames \cup CustomNames

\* The counts at the start: one goroutine, one thread, nothing sampled yet.
StartCount(name) ==
  IF name \in { GoroutineName, ThreadcreateName } THEN 1 ELSE 0

\* The profiles whose counts the program's run changes here, and the counts
\* they take; the other counts stay what they are at the start.
SampledNames == { GoroutineName, HeapName }
SampledCounts(name) == StartCount(name)..(StartCount(name) + MaxCount)

\* ---------------------------------------------------------------- template

\* register.go template text: `<html>\n  <head>\n    <title>`
TmplHead ==
  <<
     "<","h","t","m","l",">","\n"," "," ","<","h","e","a","d",">","\n"," ",
     " "," "," ","<","t","i","t","l","e",">" >>

\* register.go template text: `debug/pprof/</title>\n  </head>\n  `
TmplTitleEnd ==
  <<
     "d","e","b","u","g","/","p","p","r","o","f","/","<","/","t","i","t",
     "l","e",">","\n"," "," ","<","/","h","e","a","d",">","\n"," "," " >>

\* register.go template text: `debug/pprof/<br>\n  <br>\n  <body>\n    profiles:<br>\n    <table>\n    `
TmplBodyOpen ==
  <<
     "d","e","b","u","g","/","p","p","r","o","f","/","<","b","r",">","\n",
     " "," ","<","b","r",">","\n"," "," ","<","b","o","d","y",">","\n"," ",
     " "," "," ","p","r","o","f","i","l","e","s",":","<","b","r",">","\n",
     " "," "," "," ","<","t","a","b","l","e",">","\n"," "," "," "," " >>

\* register.go template text: `\n      <tr><td align=right>`
RowOpen ==
  <<
     "\n"," "," "," "," "," "," ","<","t","r",">","<","t","d"," ","a","l",
     "i","g","n","=","r","i","g","h","t",">" >>

\* register.go template text: `<td><a href="`
RowHref ==
  <<
     "<","t","d",">","<","a"," ","h","r","e","f","=","\"" >>

\* register.go template text: `debug/pprof/`
DebugPprof ==
  <<
     "d","e","b","u","g","/","p","p","r","o","f","/" >>

\* register.go template text: `?debug=1">`
RowQuery ==
  <<
     "?","d","e","b","u","g","=","1","\"",">" >>

\* register.go template text: `</a>\n    `
RowClose ==
  <<
     "<","/","a",">","\n"," "," "," "," " >>

\* register.go template text: `\n    <tr><td align=right><td><a href="`
CpuOpen ==
  <<
     "\n"," "," "," "," ","<","t","r",">","<","t","d"," ","a","l","i","g",
     "n","=","r","i","g","h","t",">","<","t","d",">","<","a"," ","h","r",
     "e","f","=","\"" >>

\* register.go template text: `debug/pprof/profile">CPU</a>\n    </table>\n    <br>\n    debug information:<br>\n    <table>\n    `
CpuClose ==
  <<
     "d","e","b","u","g","/","p","p","r","o","f","/","p","r","o","f","i",
     "l","e","\"",">","C","P","U","<","/","a",">","\n"," "," "," "," ","<",
     "/","t","a","b","l","e",">","\n"," "," "," "," ","<","b","r",">","\n",
     " "," "," "," ","d","e","b","u","g"," ","i","n","f","o","r","m","a",
     "t","i","o","n",":","<","b","r",">","\n"," "," "," "," ","<","t","a",
     "b","l","e",">","\n"," "," "," "," " >>

\* register.go template text: `\n      <tr><td align=right><td><a href="`
InfoOpen ==
  <<
     "\n"," "," "," "," "," "," ","<","t","r",">","<","t","d"," ","a","l",
     "i","g","n","=","r","i","g","h","t",">","<","t","d",">","<","a"," ",
     "h","r","e","f","=","\"" >>

\* register.go template text: `">`
InfoMid ==
  <<
     "\"",">" >>

\* register.go template text: `\n    <tr><td align=right><td><a href="`
DumpOpen ==
  <<
     "\n"," "," "," "," ","<","t","r",">","<","t","d"," ","a","l","i","g",
     "n","=","r","i","g","h","t",">","<","t","d",">","<","a"," ","h","r",
     "e","f","=","\"" >>

\* register.go template text: `debug/pprof/goroutine?debug=2">full goroutine stack dump</a><br>\n    <table>\n  </body>\n</html>`
TmplTail ==
  <<
     "d","e","b","u","g","/","p","p","r","o","f","/","g","o","r","o","u",
     "t","i","n","e","?","d","e","b","u","g","=","2","\"",">","f","u","l",
     "l"," ","g","o","r","o","u","t","i","n","e"," ","s","t","a","c","k",
     " ","d","u","m","p","<","/","a",">","<","b","r",">","\n"," "," "," ",
     " ","<","t","a","b","l","e",">","\n"," "," ","<","/","b","o","d","y",
     ">","\n","<","/","h","t","m","l",">" >>

\* One iteration of {{range .Profiles}}: count, link and label of a profile.
ProfileRow(prefix, row) ==
  RowOpen \o row.Count \o RowHref \o prefix \o DebugPprof \o row.Name
    \o RowQuery \o row.Name \o RowClose

\* One iteration of {{range .Info}}.
InfoRow(prefix, info) ==
  InfoOpen \o prefix \o DebugPprof \o info \o InfoMid \o info \o RowClose

RECURSIVE RangeProfiles(_, _)
RangeProfiles(prefix, rows) ==
  IF rows = << >> THEN << >>
  ELSE ProfileRow(prefix, Head(rows)) \o RangeProfiles(prefix, Tail(rows))

RECURSIVE RangeInfo(_, _)
RangeInfo(prefix, infos) ==
  IF infos = << >> THEN << >>
  ELSE InfoRow(prefix, Head(infos)) \o RangeInfo(prefix, Tail(infos))

\* The text of indexTmpl with its actions replaced by the printed values:
\* prefix is the text printed for .Prefix, rows the texts printed for each
\* profile's .Count and .Name, infos the texts printed for .Info.
IndexPage(prefix, rows, infos) ==
  TmplHead \o prefix \o TmplTitleEnd \o prefix \o TmplBodyOpen
    \o RangeProfiles(prefix, rows)
    \o CpuOpen \o prefix \o CpuClose
    \o RangeInfo(prefix, infos)
    \o DumpOpen \o prefix \o TmplTail


\* ---------------------------------------------------------------- inputs

\* The routers (http.ServeMux values) of the program.
Muxes == { "r1", "r2" }

\* Route prefixes, each with the trailing slash Register's comment asks for:
\* a plain one, one nested in it that is also a prefix of its
\* "debug/pprof/" subtree, and an unrelated one with an HTML-special character.
PrefixA == << "/", "a", "/" >>
PrefixNested == << "/", "a", "/", "d", "e", "b", "u", "g", "/" >>
PrefixAmp == << "/", "&", "/" >>
Prefixes == { PrefixA, PrefixNested, PrefixAmp }

\* What follows the prefix in a request path: nothing, the index, the three
\* fixed endpoints, a profile the runtime has, one the program may add, and a
\* name that is no profile.
Suffixes ==
  { << >>,
    DebugPprof,
    DebugPprof \o Cmdline,
    DebugPprof \o Profile,
    DebugPprof \o Symbol,
    DebugPprof \o GoroutineName,
    DebugPprof \o CustomName,
    DebugPprof \o Cmdline \o << "/" >> }

\* Paths the mux answers itself: two subtrees without the trailing slash,
\* and an index path with a doubled slash.
NoSlashA == << "/", "a" >>
NoSlashNested == << "/", "a", "/", "d", "e", "b", "u", "g" >>
DoubledSlash == << "/", "a", "/" >> \o << "/" >> \o DebugPprof

\* r.URL.Path of the requests sent while routes are registered: each prefix
\* with its index, the plain prefix alone and with the added profile, and the
\* paths above.
Paths ==
  { p \o DebugPprof : p \in Prefixes }
    \cup { PrefixA, PrefixA \o DebugPprof \o CustomName }
    \cup { NoSlashA, NoSlashNested, DoubledSlash }

\* r.URL.Path of the requests sent one at a time after setup: every suffix
\* under the plain prefix.
LivePaths == { PrefixA \o s : s \in Suffixes }

\* r.URL.Path of the requests sent concurrently after setup.
ConcPaths ==
  { PrefixA \o DebugPprof,
    PrefixAmp \o DebugPprof,
    PrefixA \o DebugPprof \o Profile,
    PrefixAmp \o DebugPprof \o CustomName }

\* The Register calls made: every prefix on the first mux, one on the second.
RegisterCalls ==
  { << p, "r1" >> : p \in Prefixes } \cup { << PrefixA, "r2" >> }

\* The mux the requests are sent to.
ServedMuxes == { "r1" }

\* ---------------------------------------------------------------- state

VARIABLES
  profiles,   \* runtime/pprof's registry: profile name -> current sample count
  muxes,      \* mux -> (pattern -> the tmpInfo its handler closure captured)
  pending,    \* Register calls that built tmpInfo and have yet to reach
              \* mux.HandleFunc
  panicked,   \* the panic raised by mux.HandleFunc, or NoPanic
  inflight,   \* the bag of requests routed to a handler that has not
              \* finished: each with the handler picked, the index rows
              \* executed so far, and whether it has the CPU profile on
  cpu,        \* the CPU profile is on (pprof.StartCPUProfile)
  last        \* the response to the request served last

vars == << profiles, muxes, pending, panicked, inflight, cpu, last >>

NoPanic == [mux |-> "", pattern |-> << >>]

NoResponse ==
  [mux |-> "", path |-> << >>, pattern |-> << >>, location |-> << >>,
   name |-> << >>, calls |-> << >>, status |-> 0, body |-> << >>]

\* A function with no argument: a mux without routes.
NoRoutes == [p \in {} |-> NoPanic]

\* ---------------------------------------------------------------- runtime/pprof

\* The names of a set, ascending.
RECURSIVE SortNames(_)
SortNames(S) ==
  IF S = {} THEN << >>
  ELSE LET min == CHOOSE n \in S : \A o \in S \ {n} : Less(n, o)
       IN << min >> \o SortNames(S \ {min})

\* pprof.Profiles(): all the profiles of the registry, sorted by name. The
\* slice holds pointers, so a profile is kept as its name.
Profiles(reg) == SortNames(DOMAIN reg)

\* Variant: the count a profile had when it was created.
StaleCount(reg, name) == 0

\* (*pprof.Profile).Count(), read when the template prints {{.Count}}.
Count(reg, name) == reg[name]

\* ---------------------------------------------------------------- Register

\* The composite literal tmpInfo of Register.
TmpInfo(prefix, reg) ==
  [Profiles |-> Profiles(reg), Info |-> << Cmdline, Symbol >>,
   Prefix |-> prefix]

\* Variant: a second route for the "debug/pprof/" subtree.
RoutePerEndpoint(prefix, h) ==
  (prefix :> h) @@ ((prefix \o DebugPprof) :> h)

\* The routes Register asks the mux for: the one HandleFunc call.
NewRoutes(prefix, h) == (prefix :> h)

\* Variant: pprof.Profiles() called again for every render.
FreshProfiles(h, reg) == Profiles(reg)

\* The profiles the index template ranges over: the slice taken at Register.
TmplProfiles(h, reg) == h.Profiles

\* Variant: the info links in the other order.
ReversedInfo(h) == << h.Info[2], h.Info[1] >>

\* The info links the index template ranges over.
TmplInfo(h) == h.Info

\* Variant: links fixed to the root, as net/http/pprof's own index has them.
HardcodedPrefix(h) == << "/" >>

\* The prefix the index template prints for {{.Prefix}} and {{$.Prefix}}.
TmplPrefix(h) == h.Prefix

\* One pass of {{range .Profiles}}: the row of profile number i, with the
\* count (*pprof.Profile).Count() returns now.
ExecuteRow(h, reg, i) ==
  LET ps == TmplProfiles(h, reg)
  IN [Name |-> ps[i], Count |-> Itoa(Count(reg, ps[i]))]

\* indexTmpl.Execute(w, tmpInfo), given the rows its range has produced:
\* text/template prints strings as they are.
Execute(h, rows) == IndexPage(TmplPrefix(h), rows, TmplInfo(h))

\* Variant: a switch whose cases fall through to the next.
FallThrough(name) ==
  IF name = << >> THEN << "index", "Cmdline", "Profile", "Symbol", "Handler" >>
  ELSE IF name = Cmdline THEN << "Cmdline", "Profile", "Symbol", "Handler" >>
  ELSE IF name = Profile THEN << "Profile", "Symbol", "Handler" >>
  ELSE IF name = Symbol THEN << "Symbol", "Handler" >>
  ELSE << "Handler" >>

\* The switch of the handler: the functions it calls for a name, in order.
Dispatch(name) ==
  IF name = << >> THEN << "index" >>
  ELSE IF name = Cmdline THEN << "Cmdline" >>
  ELSE IF name = Profile THEN << "Profile" >>
  ELSE IF name = Symbol THEN << "Symbol" >>
  ELSE << "Handler" >>

\* The status a called function answers with. nhpprof.Handler(name) answers
\* 404 when pprof.Lookup(name) finds no profile; nhpprof.Profile answers 500
\* when CPU profiling is already on.
StatusOf(call, name, reg, cpuBusy) ==
  IF call = "Handler" THEN (IF name \in DOMAIN reg THEN 200 ELSE 404)
  ELSE IF call = "Profile" THEN (IF cpuBusy THEN 500 ELSE 200)
  ELSE 200

\* Variant: only the route prefix is trimmed.
TrimRouteOnly(path, h) == TrimPrefix(path, h.Prefix)

\* name := strings.TrimPrefix(r.URL.Path, prefix+"debug/pprof/")
NameOf(path, h) == TrimPrefix(path, h.Prefix \o DebugPprof)

\* The closure h of Register, run for a request path with the tmpInfo and
\* prefix it captured; rows are the index rows executed for the request. The
\* body is the page indexTmpl writes, << >> when the index is not rendered.
Handler(path, h, reg, cpuBusy, rows) ==
  LET name == NameOf(path, h)
      calls == Dispatch(name)
  IN [name |-> name,
      calls |-> calls,
      status |-> StatusOf(Head(calls), name, reg, cpuBusy),
      body |-> IF Head(calls) = "index" THEN Execute(h, rows) ELSE << >>]

\* ---------------------------------------------------------------- http.ServeMux

\* A pattern ending in a slash names a subtree, any other a single path.
Matches(pattern, path) ==
  IF pattern # << >> /\ pattern[Len(pattern)] = "/"
  THEN HasPrefix(path, pattern)
  ELSE path = pattern

\* mux.handler, under the mux's lock taken anew: the pattern the mux picks
\* for a path, the longest that matches, or << >> (NotFound).
MuxMatch(routes, path) ==
  LET ms == { p \in DOMAIN routes : Matches(p, path) }
  IN IF ms = {} THEN << >>
     ELSE CHOOSE p \in ms : \A q \in ms : Len(q) <= Len(p)

\* Variant: the handler stores a fresh profile list in its tmpInfo.
RefreshedRoutes(routes, pattern, reg) ==
  [routes EXCEPT ![pattern].Profiles = Profiles(reg)]

\* What running the handler does to the routes and their captured tmpInfo:
\* nothing, the closure only reads them.
RoutesAfterServe(routes, pattern, reg) == routes

\* The segments of a path: what stands between its slashes.
RECURSIVE Segments(_, _)
Segments(p, cur) ==
  IF p = << >> THEN << cur >>
  ELSE IF Head(p) = "/" THEN << cur >> \o Segments(Tail(p), << >>)
  ELSE Segments(Tail(p), Append(cur, Head(p)))

\* path.Clean on the segments of a rooted path: empty and "." segments go,
\* ".." takes the segment before it along.
RECURSIVE Resolve(_, _)
Resolve(segs, out) ==
  IF segs = << >> THEN out
  ELSE IF Head(segs) = << >> \/ Head(segs) = << "." >>
  THEN Resolve(Tail(segs), out)
  ELSE IF Head(segs) = << ".", "." >>
  THEN Resolve(Tail(segs),
               IF out = << >> THEN out ELSE SubSeq(out, 1, Len(out) - 1))
  ELSE Resolve(Tail(segs), Append(out, Head(segs)))

RECURSIVE Join(_)
Join(segs) ==
  IF segs = << >> THEN << >>
  ELSE << "/" >> \o Head(segs) \o Join(Tail(segs))

\* cleanPath of net/http: the canonical path, rooted, without "." and ".."
\* and doubled slashes, with the trailing slash kept.
CleanPath(p) ==
  IF p = << >> THEN << "/" >>
  ELSE LET q == IF Head(p) = "/" THEN p ELSE << "/" >> \o p
           j == Join(Resolve(Segments(q, << >>), << >>))
           np == IF j = << >> THEN << "/" >> ELSE j
       IN IF q[Len(q)] = "/" /\ np # << "/" >> THEN np \o << "/" >> ELSE np

\* redirectToPathSlash, the first thing mux.Handler asks, under the mux's
\* lock: the mux has the subtree path+"/" and no handler for path itself.
RedirectToPathSlash(routes, path) ==
  /\ path \notin DOMAIN routes
  /\ path # << >>
  /\ path[Len(path)] # "/"
  /\ (path \o << "/" >>) \in DOMAIN routes

\* The request goes to a closure that Register installed: the mux found a
\* pattern for it and does not redirect it.
ByHandler(req) == req.pattern # << >> /\ req.location = << >>

\* The response to a routed request whose index rows are req.rows.
Response(req, cpuBusy) ==
  IF req.location # << >>
  THEN [mux |-> req.mux, path |-> req.path, pattern |-> req.pattern,
        location |-> req.location, name |-> << >>,
        calls |-> << "Redirect" >>, status |-> 301, body |-> << >>]
  ELSE IF req.pattern = << >>
  THEN [mux |-> req.mux, path |-> req.path, pattern |-> req.pattern,
        location |-> << >>, name |-> << >>,
        calls |-> << "NotFound" >>, status |-> 404, body |-> << >>]
  ELSE LET r == Handler(req.path, muxes[req.mux][req.pattern], profiles,
                        cpuBusy, req.rows)
       IN [mux |-> req.mux, path |-> req.path, pattern |-> req.pattern,
           location |-> << >>, name |-> r.name,
           calls |-> r.calls, status |-> r.status, body |-> r.body]

\* ---------------------------------------------------------------- actions

\* Register runs on the caller's goroutine and every request on one of the
\* server's, so steps of other goroutines come in between the steps of one:
\*   a Register call is the body up to the closure (Register) and the call
\*   of mux.HandleFunc (HandleFunc);
\*   a request is the mux checking, under its lock, whether to redirect the
\*   path to path+"/" (Accept), the mux picking a handler, under its lock
\*   taken a second time (Match), the steps of the handler, and its return
\*   (Finish); the steps of the index
\*   are the rows of the template's range, each reading one count under the
\*   profile's lock (Row), the step of nhpprof.Profile is the start of the
\*   CPU profile (StartCPUProfile), which Finish stops after the sleep.
\*
\* Spec explores Register calls, added profiles and requests in every
\* order, with one request between Accept and Finish at a time and the
\* counts as they are at the start. After setup, SpecLive explores every
\* endpoint of a handler, one request at a time, while profiles are added
\* and counts change under it, and SpecConc several requests in flight at
\* once.

NumRoutes(ms) ==
  Cardinality({ c \in RegisterCalls : c[1] \in DOMAIN ms[c[2]] })

Init ==
  /\ profiles = [n \in BuiltinNames |-> StartCount(n)]
  /\ muxes = [m \in Muxes |-> NoRoutes]
  /\ pending = {}
  /\ panicked = NoPanic
  /\ inflight = EmptyBag
  /\ cpu = FALSE
  /\ last = NoResponse

\* Register(prefix, mux) up to mux.HandleFunc: tmpInfo takes pprof.Profiles()
\* as the registry is now, and the closure h captures tmpInfo and prefix.
Register(prefix, m) ==
  /\ panicked = NoPanic
  /\ NumRoutes(muxes) + Cardinality(pending) < MaxRegistrations
  /\ LET call == [mux |-> m, prefix |-> prefix,
                  tmpInfo |-> TmpInfo(prefix, profiles)]
     IN /\ call \notin pending
        /\ pending' = pending \cup { call }
  /\ UNCHANGED << profiles, muxes, panicked, inflight, cpu, last >>

\* mux.HandleFunc(prefix, h), the last statement of Register: it panics when
\* the pattern is already registered.
HandleFunc(call) ==
  /\ panicked = NoPanic
  /\ call \in pending
  /\ pending' = pending \ { call }
  /\ LET new == NewRoutes(call.prefix, call.tmpInfo)
     IN IF \E p \in DOMAIN new : p \in DOMAIN muxes[call.mux]
        THEN /\ panicked' = [mux |-> call.mux, pattern |-> call.prefix]
             /\ UNCHANGED muxes
        ELSE /\ muxes' = [muxes EXCEPT ![call.mux] = new @@ @]
             /\ UNCHANGED panicked
  /\ UNCHANGED << profiles, inflight, cpu, last >>

\* pprof.NewProfile(name), called by the embedding program.
NewProfile(name) ==
  /\ panicked = NoPanic
  /\ name \notin DOMAIN profiles
  /\ profiles' = (name :> 0) @@ profiles
  /\ UNCHANGED << muxes, pending, panicked, inflight, cpu, last >>

\* The program runs: a profile's sample count changes.
Sample(name, c) ==
  /\ panicked = NoPanic
  /\ name \in DOMAIN profiles
  /\ c # profiles[name]
  /\ profiles' = [profiles EXCEPT ![name] = c]
  /\ UNCHANGED << muxes, pending, panicked, inflight, cpu, last >>

\* The function the handler picked for a request calls first.
Target(req) ==
  IF ByHandler(req)
  THEN Head(Dispatch(NameOf(req.path, muxes[req.mux][req.pattern])))
  ELSE ""

\* mux.Handler(r), up to the release of the lock that redirectToPathSlash
\* holds: the path is cleaned, and a subtree asked for without its trailing
\* slash is redirected there, going by the patterns registered now. For any
\* other path the handler is not picked yet; a path that is not canonical
\* will be redirected to its canonical form.
Accept(m, path) ==
  /\ panicked = NoPanic
  /\ LET clean == CleanPath(path)
         slash == RedirectToPathSlash(muxes[m], clean)
     IN inflight' =
          inflight (+) SetToBag({ [mux |-> m, path |-> path,
                                   matched |-> slash,
                                   pattern |-> IF slash
                                               THEN clean \o << "/" >>
                                               ELSE << >>,
                                   location |-> IF slash
                                                THEN clean \o << "/" >>
                                                ELSE IF clean # path
                                                THEN clean ELSE << >>,
                                   rows |-> << >>, profiling |-> FALSE] })
  /\ UNCHANGED << profiles, muxes, pending, panicked, cpu, last >>

\* The rest of mux.Handler(r): mux.handler takes the lock again and picks,
\* among the patterns registered now, the longest that matches the cleaned
\* path.
Match(req) ==
  /\ panicked = NoPanic
  /\ BagIn(req, inflight)
  /\ ~req.matched
  /\ inflight' =
       (inflight (-) SetToBag({ req }))
         (+) SetToBag({ [req EXCEPT
                           !.matched = TRUE,
                           !.pattern = MuxMatch(muxes[req.mux],
                                                CleanPath(req.path))] })
  /\ UNCHANGED << profiles, muxes, pending, panicked, cpu, last >>

\* The index template executes the next row of its range.
Row(req) ==
  /\ panicked = NoPanic
  /\ BagIn(req, inflight)
  /\ Target(req) = "index"
  /\ LET h == muxes[req.mux][req.pattern]
         i == Len(req.rows) + 1
     IN /\ i <= Len(TmplProfiles(h, profiles))
        /\ inflight' =
             (inflight (-) SetToBag({ req }))
               (+) SetToBag({ [req EXCEPT
                                 !.rows = Append(@, ExecuteRow(h, profiles, i))] })
  /\ UNCHANGED << profiles, muxes, pending, panicked, cpu, last >>

\* nhpprof.Profile turns the CPU profile on, and sleeps.
StartCPUProfile(req) ==
  /\ panicked = NoPanic
  /\ BagIn(req, inflight)
  /\ Target(req) = "Profile"
  /\ ~req.profiling
  /\ ~cpu
  /\ cpu' = TRUE
  /\ inflight' =
       (inflight (-) SetToBag({ req }))
         (+) SetToBag({ [req EXCEPT !.profiling = TRUE] })
  /\ UNCHANGED << profiles, muxes, pending, panicked, last >>

\* The handler picked for a request returns, the response is complete: the
\* index after its last row, nhpprof.Profile when its sleep is over and it
\* has turned the CPU profile off, or at once, with an error, when the CPU
\* profile was already on.
Finish(req) ==
  /\ panicked = NoPanic
  /\ BagIn(req, inflight)
  /\ req.matched
  /\ Target(req) = "index" =>
       Len(req.rows) >= Len(TmplProfiles(muxes[req.mux][req.pattern], profiles))
  /\ Target(req) = "Profile" => (req.profiling \/ cpu)
  /\ last' = Response(req, cpu /\ ~req.profiling)
  /\ cpu' = IF req.profiling THEN FALSE ELSE cpu
  /\ muxes' = IF ByHandler(req)
               THEN [muxes EXCEPT ![req.mux] =
                       RoutesAfterServe(@, req.pattern, profiles)]
               ELSE muxes
  /\ inflight' = inflight (-) SetToBag({ req })
  /\ UNCHANGED << profiles, pending, panicked >>

Next ==
  \/ \E c \in RegisterCalls : Register(c[1], c[2])
  \/ \E call \in pending : HandleFunc(call)
  \/ \E n \in CustomNames : NewProfile(n)
  \/ \E m \in ServedMuxes, path \in Paths :
       inflight = EmptyBag /\ Accept(m, path)
  \/ \E req \in BagToSet(inflight) : Match(req)
  \/ \E req \in BagToSet(inflight) : Row(req)
  \/ \E req \in BagToSet(inflight) : Finish(req)

Spec == Init /\ [][Next]_vars

\* ---------------------------------------------------------------- serving after setup

\* The usual shape of a program: the Register calls return before the server
\* starts.

\* Setup is over: Register(PrefixA, r1) and Register(PrefixAmp, r1) returned.
InitConc ==
  /\ profiles = [n \in BuiltinNames |-> StartCount(n)]
  /\ muxes = [m \in Muxes |->
                IF m = "r1"
                THEN NewRoutes(PrefixA, TmpInfo(PrefixA, profiles))
                       @@ NewRoutes(PrefixAmp, TmpInfo(PrefixAmp, profiles))
                ELSE NoRoutes]
  /\ pending = {}
  /\ panicked = NoPanic
  /\ inflight = EmptyBag
  /\ cpu = FALSE
  /\ last = NoResponse

\* One request at a time, while profiles are added and counts change.
NextLive ==
  \/ \E n \in CustomNames : NewProfile(n)
  \/ \E n \in SampledNames : \E c \in SampledCounts(n) : Sample(n, c)
  \/ \E m \in ServedMuxes, path \in LivePaths :
       inflight = EmptyBag /\ Accept(m, path)
  \/ \E req \in BagToSet(inflight) : Match(req)
  \/ \E req \in BagToSet(inflight) : Row(req)
  \/ \E req \in BagToSet(inflight) : StartCPUProfile(req)
  \/ \E req \in BagToSet(inflight) : Finish(req)

SpecLive == InitConc /\ [][NextLive]_vars

\* Several requests in flight at once, while profiles are added.
NextConc ==
  \/ \E n \in CustomNames : NewProfile(n)
  \/ \E m \in ServedMuxes, path \in ConcPaths :
       BagCardinality(inflight) < MaxInflight /\ Accept(m, path)
  \/ \E req \in BagToSet(inflight) : Match(req)
  \/ \E req \in BagToSet(inflight) : Row(req)
  \/ \E req \in BagToSet(inflight) : StartCPUProfile(req)
  \/ \E req \in BagToSet(inflight) : Finish(req)

SpecConc == InitConc /\ [][NextConc]_vars

\* ---------------------------------------------------------------- properties

\* The request a step takes in, the request for which a step picks the
\* handler (as it is after the step), and the request a step serves.
Accepted ==
  { req \in BagToSet(inflight') : inflight' = inflight (+) SetToBag({ req }) }
Matched ==
  { req \in BagToSet(inflight') :
      \E old \in BagToSet(inflight) :
        /\ ~old.matched /\ req.matched
        /\ req = [old EXCEPT !.matched = TRUE, !.pattern = req.pattern]
        /\ inflight' =
             (inflight (-) SetToBag({ old })) (+) SetToBag({ req }) }
Finished ==
  { req \in BagToSet(inflight) : inflight' = inflight (-) SetToBag({ req }) }

\* A step that serves a request and writes its response.
Served == Finished # {}

\* The elements of a sequence.
Range(seq) == { seq[i] : i \in DOMAIN seq }

\* Where sub occurs in s.
PosSet(s, sub) ==
  UNION { { i \in 1..(Len(text) - Len(word) + 1) :
              /\ word # << >> => text[i] = word[1]
              /\ SubSeq(text, i, i + Len(word) - 1) = word } :
          text \in {s}, word \in {sub} }

\* sub occurs in s.
Contains(s, sub) ==
  \E text \in {s}, word \in {sub} :
    \E i \in 1..(Len(text) - Len(word) + 1) :
      /\ word # << >> => text[i] = word[1]
      /\ SubSeq(text, i, i + Len(word) - 1) = word

HrefOpen == << "h", "r", "e", "f", "=", "\"" >>
Quote == << "\"" >>
Debug1 == << "?", "d", "e", "b", "u", "g", "=", "1" >>
GoroutineDebug2 ==
  << "g", "o", "r", "o", "u", "t", "i", "n", "e",
     "?", "d", "e", "b", "u", "g", "=", "2" >>

\* The text of a link to url.
Href(url) == HrefOpen \o url \o Quote

\* The targets of the links of a page: what stands between href=" and the
\* next quote.
Links(body) ==
  UNION { { LET k == i + Len(HrefOpen)
                e == CHOOSE j \in k..Len(text) :
                       /\ text[j] = "\""
                       /\ \A l \in k..(j - 1) : text[l] # "\""
            IN SubSeq(text, k, e - 1) : i \in PosSet(text, HrefOpen) } :
          text \in {body} }

\* The name the claims speak of: the path without prefix+"debug/pprof/".
ClaimName(path, prefix) == TrimPrefix(path, prefix \o DebugPprof)

FixedNames == { << >>, Cmdline, Profile, Symbol }


\* C1: a request handled by the handler registered under a prefix calls
\* exactly one function, once: the index for the empty name, Cmdline, Profile
\* and Symbol for "cmdline", "profile" and "symbol", and the lookup by name
\* for every other name, the name being the path without
\* prefix+"debug/pprof/" and compared as a whole string.
C1_DispatchTable ==
  ByHandler(last) =>
    LET name == ClaimName(last.path, last.pattern)
    IN /\ last.name = name
       /\ last.calls =
            << IF name = << >> THEN "index"
               ELSE IF name = Cmdline THEN "Cmdline"
               ELSE IF name = Profile THEN "Profile"
               ELSE IF name = Symbol THEN "Symbol"
               ELSE "Handler" >>

\* "cmdline/" went to the lookup by name, not to Cmdline.
C1_Witness ==
  /\ last.pattern = PrefixA
  /\ last.name = Cmdline \o << "/" >>
  /\ last.calls = << "Handler" >>

\* What the claims ask of the index of prefix p listing the profiles names:
\* the prefix, the CPU link, a ?debug=1 link per profile, the cmdline link
\* before the symbol link, and the goroutine dump link.
IndexShows(body, p, names) ==
  /\ Contains(body, p)
  /\ Contains(body, Href(p \o DebugPprof \o Profile))
  /\ \A n \in names : Contains(body, Href(p \o DebugPprof \o n \o Debug1))
  /\ \E i \in PosSet(body, Href(p \o DebugPprof \o Cmdline)),
        j \in PosSet(body, Href(p \o DebugPprof \o Symbol)) : i < j
  /\ Contains(body, Href(p \o DebugPprof \o GoroutineDebug2))

\* A longer registered pattern takes the path away from p.
Shadowed(routes, p, path) ==
  \E q \in DOMAIN routes : Len(q) > Len(p) /\ Matches(q, path)

\* The request served got the index of the handler that was picked for it.
ServedIndex(req) ==
  /\ last'.status = 200
  /\ IndexShows(last'.body, req.pattern,
                Range(muxes[req.mux][req.pattern].Profiles))

\* C2 as stated: for every registered prefix p, a request to
\* p+"debug/pprof/" goes to the handler of p and is answered 200 with the
\* index of p.
C2_Original ==
  [][/\ \A req \in Matched :
          \A p \in DOMAIN muxes[req.mux] :
            req.path = p \o DebugPprof => (ByHandler(req) /\ req.pattern = p)
     /\ \A req \in Finished :
          (ByHandler(req) /\ req.path = req.pattern \o DebugPprof) =>
            ServedIndex(req)]_vars

\* C2, amended: for every prefix p in canonical form that is registered
\* when the mux routes the request (picks the handler) and such that no longer pattern
\* registered on the same mux then is a prefix of p+"debug/pprof/", a request
\* to p+"debug/pprof/" goes to the handler of p and is answered 200 with a
\* body that holds p, the link to p+"debug/pprof/profile", a ?debug=1 link
\* for every profile of the view model, the cmdline and symbol links in that
\* order, and the goroutine?debug=2 link.
C2_Index ==
  [][/\ \A req \in Matched :
          \A p \in DOMAIN muxes[req.mux] :
            (req.path = p \o DebugPprof
               /\ CleanPath(p) = p
               /\ ~Shadowed(muxes[req.mux], p, req.path)) =>
              (ByHandler(req) /\ req.pattern = p)
     /\ \A req \in Finished :
          (ByHandler(req) /\ req.path = req.pattern \o DebugPprof) =>
            ServedIndex(req)]_vars

\* An index of "/&/" that lists the built-in and the added profile was
\* served.
C2_Witness ==
  /\ last.path = PrefixAmp \o DebugPprof
  /\ last.status = 200
  /\ IndexShows(last.body, PrefixAmp, ProfileNames)

\* C3: a request whose path is exactly the registered prefix gets the index
\* page.
C3_PrefixIsIndex ==
  (ByHandler(last) /\ last.path = last.pattern) =>
    (last.calls = << "index" >> /\ last.status = 200)

\* C4 as stated, for the requests whose path is in canonical form: with two
\* or more prefixes registered on a mux, every request under a registered
\* prefix a is served by a's handler, and the index at a+"debug/pprof/" has
\* only links that start with a and none that starts with another
\* registered prefix.
C4_Original ==
  [][/\ \A req \in Matched :
          (Cardinality(DOMAIN muxes[req.mux]) >= 2
             /\ CleanPath(req.path) = req.path) =>
            \A a \in DOMAIN muxes[req.mux] :
              HasPrefix(req.path, a) => (ByHandler(req) /\ req.pattern = a)
     /\ \A req \in Finished :
          (Cardinality(DOMAIN muxes[req.mux]) >= 2
             /\ ByHandler(req) /\ req.path = req.pattern \o DebugPprof) =>
            /\ last'.calls = << "index" >>
            /\ \A l \in Links(last'.body) :
                 /\ HasPrefix(l, req.pattern)
                 /\ \A b \in DOMAIN muxes[req.mux] \ { req.pattern } :
                      ~HasPrefix(l, b)]_vars

\* The registered prefixes a path starts with.
Under(routes, path) == { q \in DOMAIN routes : HasPrefix(path, q) }

\* C4, amended: with two or more prefixes on a mux, registered in any
\* order, also while requests are routed: a request whose path, made
\* canonical, has no trailing slash and is, with the slash added, a prefix
\* registered at the moment the mux checks the path, while the path itself
\* is no registered pattern, is answered by the mux with a 301 to the path
\* with the slash; any other request whose path is not in canonical form is
\* answered by the mux with a 301 to the canonical path; every other
\* request is served by the handler of the longest prefix its path starts
\* with among those registered at the moment the mux, after that check,
\* picks the handler (by the mux's NotFound when there is none), whatever
\* is registered before the check or after the pick; a+"debug/pprof/"
\* served by a's handler renders the index; an index that a's handler
\* renders has only links that start with a, and none of them starts with
\* another registered prefix b unless one of a and b is a prefix of the
\* other.
C4_NoCrossTalk ==
  [][/\ \A req \in Accepted :
          LET routes == muxes[req.mux]
              clean == CleanPath(req.path)
              slash == clean \o << "/" >>
          IN IF /\ clean[Len(clean)] # "/"
                /\ slash \in DOMAIN routes
                /\ clean \notin DOMAIN routes
             THEN req.matched /\ req.location = slash
             ELSE /\ ~req.matched
                  /\ req.location = IF clean = req.path THEN << >> ELSE clean
     /\ \A req \in Matched :
          LET under == Under(muxes[req.mux], CleanPath(req.path))
          IN /\ under = {} => req.pattern = << >>
             /\ under # {} =>
                  /\ req.pattern \in under
                  /\ \A q \in under : Len(q) <= Len(req.pattern)
             /\ ByHandler(req) = (under # {} /\ CleanPath(req.path) = req.path)
     /\ \A req \in Finished :
          LET a == req.pattern
          IN /\ last'.mux = req.mux /\ last'.path = req.path
             /\ last'.pattern = a
             /\ req.location # << >> =>
                  /\ last'.status = 301
                  /\ last'.location = req.location
                  /\ last'.calls = << "Redirect" >>
             /\ (a = << >> /\ req.location = << >>) =>
                  (last'.status = 404 /\ last'.calls = << "NotFound" >>)
             /\ (ByHandler(req) /\ req.path = a \o DebugPprof) =>
                  last'.calls = << "index" >>
             /\ last'.calls = << "index" >> =>
                  \A l \in Links(last'.body) :
                    /\ HasPrefix(l, a)
                    /\ \A b \in DOMAIN muxes[req.mux] \ {a} :
                         HasPrefix(l, b) =>
                           (HasPrefix(a, b) \/ HasPrefix(b, a))]_vars

\* With "/a/" and "/a/debug/" on one mux, "/a/debug/pprof/" went to the
\* handler of "/a/debug/".
C4_Witness ==
  /\ last.mux = "r1"
  /\ DOMAIN muxes["r1"] = { PrefixA, PrefixNested }
  /\ last.path = PrefixA \o DebugPprof
  /\ last.pattern = PrefixNested

\* html.EscapeString.
RECURSIVE HTMLEscape(_)
HTMLEscape(s) ==
  IF s = << >> THEN << >>
  ELSE (CASE Head(s) = "&" -> << "&", "a", "m", "p", ";" >>
          [] Head(s) = "<" -> << "&", "l", "t", ";" >>
          [] Head(s) = ">" -> << "&", "g", "t", ";" >>
          [] Head(s) = "\"" -> << "&", "#", "3", "4", ";" >>
          [] Head(s) = "'" -> << "&", "#", "3", "9", ";" >>
          [] OTHER -> << Head(s) >>) \o HTMLEscape(Tail(s))

\* C5: the index is rendered with the prefix and every profile name
\* HTML-escaped, so none of their special characters reaches the body as it
\* is.
C5_Escaped ==
  [][\A req \in Finished :
       last'.calls = << "index" >> =>
         LET h == muxes[req.mux][req.pattern]
         IN last'.body =
              IndexPage(HTMLEscape(h.Prefix),
                        [i \in 1..Len(h.Profiles) |->
                           [Name |-> HTMLEscape(h.Profiles[i]),
                            Count |-> req.rows[i].Count]],
                        << Cmdline, Symbol >>)]_vars

\* C6: a request whose name is none of "", "cmdline", "profile", "symbol"
\* and no profile of the registry is answered 404 by the lookup by name and
\* by nothing else; a path that does not start with prefix+"debug/pprof/" is
\* looked up whole.
C6_NotFound ==
  [][(Served /\ ByHandler(last')) =>
       LET name == ClaimName(last'.path, last'.pattern)
       IN /\ ~HasPrefix(last'.path, last'.pattern \o DebugPprof) =>
               last'.name = last'.path
          /\ (name \notin FixedNames /\ name \notin DOMAIN profiles) =>
               /\ last'.status = 404
               /\ last'.calls = << "Handler" >>
               /\ last'.body = << >>]_vars

\* The bare prefix "/a/" was looked up as a profile name and not found.
C6_Witness ==
  /\ last.path = PrefixA
  /\ last.pattern = PrefixA
  /\ last.name = PrefixA
  /\ last.status = 404

\* C7: a Register call adds exactly one route, at the prefix, to the mux it
\* is given, and changes no other route of any mux; the only failure is the
\* mux's panic on a second registration of a prefix, raised by the Register
\* call and never while a request is routed or served.
C7_OneRoute ==
  [][/\ pending' # pending =>
          IF pending' \subseteq pending
          THEN (muxes' # muxes) # (panicked' # panicked)
          ELSE muxes' = muxes /\ panicked' = panicked
     /\ muxes' # muxes =>
          \E call \in pending \ pending' :
            LET m == call.mux
                p == call.prefix
            IN /\ p \notin DOMAIN muxes[m]
               /\ DOMAIN muxes'[m] = DOMAIN muxes[m] \cup {p}
               /\ muxes'[m][p].Prefix = p
               /\ \A q \in DOMAIN muxes[m] : muxes'[m][q] = muxes[m][q]
               /\ \A o \in Muxes \ {m} : muxes'[o] = muxes[o]
               /\ panicked' = NoPanic
     /\ panicked' # panicked =>
          /\ panicked = NoPanic
          /\ \E call \in pending \ pending' :
               panicked' = [mux |-> call.mux, pattern |-> call.prefix]
          /\ panicked'.pattern \in DOMAIN muxes[panicked'.mux]
          /\ muxes' = muxes
          /\ inflight' = inflight
          /\ ~Served]_vars

\* Register("/a/", r1) ran twice: the second call panicked and r1 still has
\* the one route.
C7_Witness ==
  /\ panicked = [mux |-> "r1", pattern |-> PrefixA]
  /\ DOMAIN muxes["r1"] = { PrefixA }
  /\ muxes["r2"] = NoRoutes

\* The row of the index of h that shows count c for the profile name.
CountRow(h, name, c) ==
  RowOpen \o Itoa(c) \o RowHref \o h.Prefix \o DebugPprof \o name \o RowQuery

\* The steps that execute a row of an index: the request before and after.
RowsAdded ==
  { step \in BagToSet(inflight) \X BagToSet(inflight') :
      /\ Len(step[2].rows) = Len(step[1].rows) + 1
      /\ step[2] = [step[1] EXCEPT !.rows = step[2].rows]
      /\ SubSeq(step[2].rows, 1, Len(step[1].rows)) = step[1].rows
      /\ inflight' =
           (inflight (-) SetToBag({ step[1] })) (+) SetToBag({ step[2] }) }

\* The rows that the index requests in flight have executed show count c
\* for the profile name.
RowsShow(name, c) ==
  \A req \in BagToSet(inflight) :
    \A i \in DOMAIN req.rows :
      req.rows[i].Name = name => req.rows[i].Count = Itoa(c)

\* C8: the count the index shows for a profile is the count the profile has
\* during that render, when the template executes the profile's row, not
\* the count it had at Register or at an earlier render, and the page shows
\* the counts so read; hence a count that changed between Register and the
\* request, or between two requests, is shown as changed; and a count that
\* does not change from before a render on is shown the same by that render
\* and by every later one: successive renders with no count change in
\* between show identical counts.
C8_LiveCounts ==
  /\ [][/\ \A step \in RowsAdded :
             LET h == muxes[step[1].mux][step[1].pattern]
                 i == Len(step[2].rows)
             IN /\ step[2].rows[i].Name = h.Profiles[i]
                /\ step[2].rows[i].Count = Itoa(profiles[h.Profiles[i]])
        /\ \A req \in Finished :
             last'.calls = << "index" >> =>
               LET h == muxes[req.mux][req.pattern]
               IN /\ Len(req.rows) = Len(h.Profiles)
                  /\ \A i \in DOMAIN req.rows :
                       Contains(last'.body,
                                RowOpen \o req.rows[i].Count \o RowHref
                                  \o h.Prefix \o DebugPprof \o h.Profiles[i]
                                  \o RowQuery)]_vars
  /\ \A name \in BuiltinNames :
       \A c \in SampledCounts(name) :
         []((inflight = EmptyBag /\ [](profiles[name] = c))
              => []RowsShow(name, c))

\* An index of "/a/", registered when the heap profile's count was 0 and the
\* goroutine profile's 1, shows heap 1 and goroutine 2, the counts at the
\* time of the request.
C8_Witness ==
  /\ last.calls = << "index" >>
  /\ last.pattern = PrefixA
  /\ Contains(last.body, CountRow([Prefix |-> PrefixA], HeapName, 1))
  /\ Contains(last.body, CountRow([Prefix |-> PrefixA], GoroutineName, 2))
  /\ profiles[GoroutineName] = 2
  /\ profiles[HeapName] = 1

\* The links of the index of a handler, from what it captured at Register.
ExpectedLinks(h) ==
  { h.Prefix \o DebugPprof \o n \o Debug1 : n \in Range(h.Profiles) }
    \cup { h.Prefix \o DebugPprof \o s :
             s \in { Profile, Cmdline, Symbol, GoroutineDebug2 } }

\* C9: serving never changes what Register captured (prefix, profile list,
\* info links) or the routes of a mux; however requests interleave, each is
\* dispatched as its own path and handler decide, and each index has the
\* prefix and links of its own handler.
C9_Reentrant ==
  [][/\ muxes' = muxes
     /\ \A req \in Finished :
          ByHandler(req) =>
            LET h == muxes[req.mux][req.pattern]
                name == ClaimName(req.path, req.pattern)
            IN /\ last'.mux = req.mux /\ last'.path = req.path
               /\ last'.pattern = req.pattern
               /\ last'.calls =
                    << IF name = << >> THEN "index"
                       ELSE IF name = Cmdline THEN "Cmdline"
                       ELSE IF name = Profile THEN "Profile"
                       ELSE IF name = Symbol THEN "Symbol"
                       ELSE "Handler" >>
               /\ name = << >> =>
                    /\ Links(last'.body) = ExpectedLinks(h)
                    /\ SubSeq(last'.body, Len(TmplHead) + 1,
                              Len(TmplHead) + Len(req.pattern))
                         = req.pattern]_vars

\* An index of "/a/" was served while a request to another prefix was in
\* flight, in a run in which a profile was added.
C9_Witness ==
  /\ last.calls = << "index" >>
  /\ last.pattern = PrefixA
  /\ CustomName \in DOMAIN profiles
  /\ \E req \in BagToSet(inflight) : req.pattern = PrefixAmp

\* C10: the index lists the profiles the registry held when Register was
\* called, that is when Register read pprof.Profiles(): the route appears
\* with that list, every index of the route lists exactly that list, and a
\* profile added later is found by a request for its name (200).
C10_Snapshot ==
  [][/\ \A call \in pending' \ pending :
          Range(call.tmpInfo.Profiles) = DOMAIN profiles
     /\ \A m \in Muxes :
          \A p \in DOMAIN muxes'[m] \ DOMAIN muxes[m] :
            \E call \in pending \ pending' :
              /\ call.mux = m /\ call.prefix = p
              /\ muxes'[m][p] = call.tmpInfo
     /\ (Served /\ last'.calls = << "index" >>) =>
          LET h == muxes[last'.mux][last'.pattern]
          IN \A n \in ProfileNames :
               Contains(last'.body, Href(h.Prefix \o DebugPprof \o n \o Debug1))
                 <=> n \in Range(h.Profiles)
     /\ (Served /\ ByHandler(last')
           /\ ClaimName(last'.path, last'.pattern) \in DOMAIN profiles) =>
          /\ last'.calls = << "Handler" >>
          /\ last'.status = 200]_vars

\* The added profile was served by a handler whose index does not list it.
C10_Witness ==
  /\ last.pattern = PrefixA
  /\ last.name = CustomName
  /\ last.status = 200
  /\ CustomName \notin Range(muxes[last.mux][PrefixA].Profiles)

====
